---------------------------- MODULE Spec2Model ----------------------------
(***************************************************************************)
(* Model of the booking server (server.js): the POST /api/bookings         *)
(* handler, its validators and sanitizers, the bookings table, the ICS     *)
(* calendar builder and the two notification mails.                        *)
(*                                                                         *)
(* A JavaScript string is a sequence of one-character strings.  A field    *)
(* that is absent from the request body (undefined) is the value Undef.    *)
(***************************************************************************)
EXTENDS Integers, Sequences, FiniteSets, TLC

(***************************************************************************)
(* Characters and strings                                                  *)
(***************************************************************************)
Undef == <<"undefined">>

DigitChars == <<"0", "1", "2", "3", "4", "5", "6", "7", "8", "9">>

Digit == {DigitChars[i] : i \in 1..10}

\* the characters the regular-expression class \s and String.trim call white space
WhiteSpace == {" ", "\t", "\n", "\r"}

DigitVal(c) == (CHOOSE i \in 1..10 : DigitChars[i] = c) - 1

Min(a, b) == IF a <= b THEN a ELSE b

\* the string of n copies of the character c
Rep(c, n) == [i \in 1..n |-> c]

\* the decimal number written by a string of digits
RECURSIVE Num(_)
Num(s) == IF s = <<>> THEN 0
          ELSE 10 * Num(SubSeq(s, 1, Len(s) - 1)) + DigitVal(s[Len(s)])

\* String(n).padStart(w, '0') for 0 <= n < 10^w
RECURSIVE Pad(_, _)
Pad(n, w) == IF w = 0 THEN <<>>
             ELSE Append(Pad(n \div 10, w - 1), DigitChars[(n % 10) + 1])

AllDigits(s) == \A i \in 1..Len(s) : s[i] \in Digit

(***************************************************************************)
(* Simple validators (server.js 74-81)                                     *)
(***************************************************************************)
\* v || ''  followed by String(...)
OrEmpty(v) == IF v = Undef THEN <<>> ELSE v

\* !v for a string or undefined
Falsy(v) == v = Undef \/ v = <<>>

\* the number of characters of s from index i on (towards the end) that are in ok
RECURSIVE Span(_, _, _)
Span(s, i, ok) == IF i <= Len(s) /\ s[i] \in ok THEN 1 + Span(s, i + 1, ok) ELSE 0

\* the number of characters of s from index i back (towards the start) that are in ok
RECURSIVE SpanBack(_, _, _)
SpanBack(s, i, ok) == IF i >= 1 /\ s[i] \in ok THEN 1 + SpanBack(s, i - 1, ok) ELSE 0

\* String.prototype.trim
Trim(s) ==
    LET lead == Span(s, 1, WhiteSpace)
    IN  IF lead = Len(s) THEN <<>>
        ELSE SubSeq(s, lead + 1, Len(s) - SpanBack(s, Len(s), WhiteSpace))

\* String.prototype.slice(0, n)
Slice(s, n) == SubSeq(s, 1, Min(n, Len(s)))

SmallTextMax == 200

TextMax == 2000

PhoneMinLen == 7

\* /^[^\s@]+@[^\s@]+\.[^\s@]+$/.test(v)
isEmail(v) ==
    \E at \in 2..Len(v) :
        /\ v[at] = "@"
        /\ \A k \in 1..Len(v) : k # at => v[k] \notin (WhiteSpace \cup {"@"})
        /\ \E dot \in (at + 2)..(Len(v) - 1) : v[dot] = "."

PhoneChars == Digit \cup {"-", "+", "(", ")"} \cup WhiteSpace

\* /^[0-9\-\+\(\)\s]{7,}$/.test(v)
isPhone(v) == Len(v) >= PhoneMinLen /\ \A k \in 1..Len(v) : v[k] \in PhoneChars

sanitizeText(v) == Slice(Trim(OrEmpty(v)), TextMax)

sanitizeSmallText(v) == Slice(Trim(OrEmpty(v)), SmallTextMax)

\* a JavaScript number that is either an integer or NaN
NaN == [finite |-> FALSE, val |-> 0]

Number(n) == [finite |-> TRUE, val |-> n]

\* the column value: SQL NULL or an integer
Null == [null |-> TRUE, val |-> 0]

IntValue(n) == [null |-> FALSE, val |-> n]

\* parseInt(v, 10): String(v), leading white space skipped, an optional sign,
\* then the longest run of decimal digits; NaN when that run is empty
parseInt(v) ==
    LET s      == IF v = Undef THEN <<"u", "n", "d", "e", "f", "i", "n", "e", "d">> ELSE v
        ws     == Span(s, 1, WhiteSpace)
        signed == ws + 1 <= Len(s) /\ s[ws + 1] \in {"+", "-"}
        from   == IF signed THEN ws + 2 ELSE ws + 1
        n      == Span(s, from, Digit)
        mag    == Num(SubSeq(s, from, from + n - 1))
    IN  IF n = 0 THEN NaN
        ELSE Number(IF signed /\ s[ws + 1] = "-" THEN 0 - mag ELSE mag)

\* variant: Number(v) in place of parseInt, which takes only a whole decimal number
toIntStrict(v) ==
    IF v # Undef /\ v # <<>> /\ AllDigits(v) THEN IntValue(Num(v)) ELSE Null

toInt(v) ==
    LET n == parseInt(v)
    IN  IF n.finite THEN IntValue(n.val) ELSE Null

(***************************************************************************)
(* Date: a time value is a day number (days since 1970-01-01, UTC) and the *)
(* milliseconds within that day, or the invalid date (time value NaN).     *)
(***************************************************************************)
MsPerDay == 24 * 60 * 60 * 1000

\* the years the calendar arithmetic of the model covers
Years == 1970..2037

InvalidDate == [valid |-> FALSE, day |-> 0, ms |-> 0]

\* the time value day * MsPerDay + ms, kept as (day, ms) with 0 <= ms < MsPerDay
TimeValue(day, ms) ==
    [valid |-> TRUE, day |-> day + (ms \div MsPerDay), ms |-> ms % MsPerDay]

IsLeap(y) == (y % 4 = 0 /\ y % 100 # 0) \/ y % 400 = 0

DaysInMonth(y, m) ==
    IF m = 2 THEN (IF IsLeap(y) THEN 29 ELSE 28)
    ELSE IF m \in {4, 6, 9, 11} THEN 30 ELSE 31

LeapsBefore(y) == ((y - 1) \div 4) - ((y - 1) \div 100) + ((y - 1) \div 400)

DaysBeforeYear(y) == 365 * (y - 1970) + LeapsBefore(y) - LeapsBefore(1970)

\* the days of year y before its month m
DaysBeforeMonth(y, m) ==
    <<0, 31, 59, 90, 120, 151, 181, 212, 243, 273, 304, 334>>[m]
    + (IF m > 2 /\ IsLeap(y) THEN 1 ELSE 0)

MakeDay(y, m, d) == DaysBeforeYear(y) + DaysBeforeMonth(y, m) + (d - 1)

\* the year, month and day of the month of a day number
CivilFromDay(day) ==
    LET guess == 1970 + (day \div 366)
        y == CHOOSE c \in guess..(guess + 1) :
                 DaysBeforeYear(c) <= day /\ day < DaysBeforeYear(c + 1)
        n == day - DaysBeforeYear(y)
        m == CHOOSE c \in 1..12 :
                 DaysBeforeMonth(y, c) <= n /\ n < DaysBeforeMonth(y, c) + DaysInMonth(y, c)
    IN  [year |-> y, month |-> m, date |-> n - DaysBeforeMonth(y, m) + 1]

\* Date.prototype.toISOString of a valid date: YYYY-MM-DDTHH:mm:ss.sssZ
toISOString(t) ==
    LET c == CivilFromDay(t.day)
    IN  Pad(c.year, 4) \o <<"-">> \o Pad(c.month, 2) \o <<"-">> \o Pad(c.date, 2) \o <<"T">>
        \o Pad(t.ms \div 3600000, 2) \o <<":">>
        \o Pad((t.ms \div 60000) % 60, 2) \o <<":">>
        \o Pad((t.ms \div 1000) % 60, 2) \o <<".">> \o Pad(t.ms % 1000, 3) \o <<"Z">>

\* s[i..j] is a run of digits
DigitsAt(s, i, j) == j <= Len(s) /\ AllDigits(SubSeq(s, i, j))

\* the date part YYYY-MM-DD of an ISO date-time, with a month that exists and a
\* day from 1 to 31
IsoDateShape(s) ==
    /\ Len(s) >= 11
    /\ DigitsAt(s, 1, 4) /\ s[5] = "-" /\ DigitsAt(s, 6, 7) /\ s[8] = "-"
    /\ DigitsAt(s, 9, 10) /\ s[11] = "T"
    /\ Num(SubSeq(s, 1, 4)) \in Years
    /\ Num(SubSeq(s, 6, 7)) \in 1..12
    /\ Num(SubSeq(s, 9, 10)) \in 1..31

\* the date part names a day its month has
IsoDatePart(s) ==
    /\ IsoDateShape(s)
    /\ Num(SubSeq(s, 9, 10)) <= DaysInMonth(Num(SubSeq(s, 1, 4)), Num(SubSeq(s, 6, 7)))

\* THH:mm with an hour and a minute that exist
IsoHourMinute(s) ==
    /\ DigitsAt(s, 12, 13) /\ Len(s) >= 16 /\ s[14] = ":" /\ DigitsAt(s, 15, 16)
    /\ Num(SubSeq(s, 12, 13)) \in 0..23
    /\ Num(SubSeq(s, 15, 16)) \in 0..59

\* :ss with a second that exists
IsoSecond(s) ==
    Len(s) >= 19 /\ s[17] = ":" /\ DigitsAt(s, 18, 19) /\ Num(SubSeq(s, 18, 19)) \in 0..59

\* the date-time forms without a zone, which are read as local time
IsLocalIso(s) ==
    /\ IsoDatePart(s) /\ IsoHourMinute(s)
    /\ Len(s) = 16 \/ (Len(s) = 19 /\ IsoSecond(s))

\* a local date-time whose day its month does not have (February 30): engines
\* differ, some reject it and some carry the extra days into the next month
IsLocalIsoOverflow(s) ==
    /\ IsoDateShape(s) /\ ~IsoDatePart(s) /\ IsoHourMinute(s)
    /\ Len(s) = 16 \/ (Len(s) = 19 /\ IsoSecond(s))

\* the form toISOString writes, read as UTC
IsUtcIso(s) ==
    /\ IsoDatePart(s) /\ IsoHourMinute(s) /\ IsoSecond(s)
    /\ Len(s) = 24 /\ s[20] = "." /\ DigitsAt(s, 21, 23) /\ s[24] = "Z"

IsoMsOfDay(s) ==
    Num(SubSeq(s, 12, 13)) * 3600000 + Num(SubSeq(s, 15, 16)) * 60000
    + (IF Len(s) >= 19 THEN Num(SubSeq(s, 18, 19)) * 1000 ELSE 0)
    + (IF Len(s) >= 23 THEN Num(SubSeq(s, 21, 23)) ELSE 0)

IsoDay(s) == MakeDay(Num(SubSeq(s, 1, 4)), Num(SubSeq(s, 6, 7)), Num(SubSeq(s, 9, 10)))

\* what a string outside the ISO format may parse to: the fallback is implementation
\* defined, so the invalid date or some date
FallbackDates == {InvalidDate, TimeValue(MakeDay(2001, 1, 1), 0)}

\* new Date(s): the possible results; tz is the time zone offset in minutes
\* (UTC minus local time, as getTimezoneOffset reports it)
DateParse(s, tz) ==
    IF IsUtcIso(s) THEN {TimeValue(IsoDay(s), IsoMsOfDay(s))}
    ELSE IF IsLocalIso(s) THEN {TimeValue(IsoDay(s), IsoMsOfDay(s) + tz * 60000)}
    ELSE IF IsLocalIsoOverflow(s)
         THEN {InvalidDate, TimeValue(IsoDay(s), IsoMsOfDay(s) + tz * 60000)}
    ELSE FallbackDates

(***************************************************************************)
(* Configuration (server.js 18-20, 176-177) and text constants             *)
(***************************************************************************)
\* the character U+2014 of the summary and subject lines
EmDash == "emdash"

BRAND_NAME == <<"P", "r", "e", "s", "s", "u", "r", "e", " ", "W", "a", "s", "h", "i", "n", "g">>

\* Number.prototype.toString of an integer
RECURSIVE NatToStr(_)
NatToStr(n) == IF n < 10 THEN <<DigitChars[n + 1]>>
               ELSE Append(NatToStr(n \div 10), DigitChars[(n % 10) + 1])

IntToStr(n) == IF n < 0 THEN <<"-">> \o NatToStr(0 - n) ELSE NatToStr(n)

\* Array.prototype.join
RECURSIVE Join(_, _)
Join(parts, sep) ==
    IF parts = <<>> THEN <<>>
    ELSE IF Len(parts) = 1 THEN parts[1]
    ELSE parts[1] \o sep \o Join(Tail(parts), sep)

\* String.prototype.replace(/\n/g, '\\n'): every line feed becomes backslash, n
RECURSIVE EscapeNewlines(_)
EscapeNewlines(s) ==
    IF s = <<>> THEN <<>>
    ELSE IF Len(s) = 1 THEN (IF s[1] = "\n" THEN <<"\\", "n">> ELSE s)
    ELSE EscapeNewlines(SubSeq(s, 1, Len(s) \div 2))
         \o EscapeNewlines(SubSeq(s, (Len(s) \div 2) + 1, Len(s)))

\* String.prototype.replace(/[-:]/g, '')
RECURSIVE StripDashColon(_)
StripDashColon(s) ==
    IF s = <<>> THEN <<>>
    ELSE (IF s[1] \in {"-", ":"} THEN <<>> ELSE <<s[1]>>) \o StripDashColon(Tail(s))

\* String.prototype.split('.')[0]
BeforeDot(s) == SubSeq(s, 1, Span(s, 1, {s[i] : i \in 1..Len(s)} \ {"."}))

(***************************************************************************)
(* buildICS (server.js 84-107)                                             *)
(***************************************************************************)
\* toICSDate: the ISO string read back as a date, written again, stripped of
\* dashes and colons, cut at the dot, with Z appended
toICSDate(iso) ==
    LET t == CHOOSE d \in DateParse(iso, 0) : TRUE
    IN  BeforeDot(StripDashColon(toISOString(t))) \o <<"Z">>

Line(name, value) == [name |-> name, value |-> value]

\* the calendar text as its lines, which the code joins with CRLF; now is the
\* date Date.now() and new Date() read. The UID carries Date.now(), written here
\* as the day number and the millisecond of the day rather than as one number
buildICS(summary, description, startISO, endISO, now) ==
    << Line("BEGIN", <<"V", "C", "A", "L", "E", "N", "D", "A", "R">>),
       Line("VERSION", <<"2", ".", "0">>),
       Line("PRODID", <<"-", "/", "/", "P", "r", "e", "s", "s", "u", "r", "e", "W", "a", "s", "h", "/", "/", "B", "o", "o", "k", "i", "n", "g", "/", "/", "E", "N">>),
       Line("CALSCALE", <<"G", "R", "E", "G", "O", "R", "I", "A", "N">>),
       Line("METHOD", <<"P", "U", "B", "L", "I", "S", "H">>),
       Line("BEGIN", <<"V", "E", "V", "E", "N", "T">>),
       Line("UID", <<"b", "o", "o", "k", "i", "n", "g", "-">> \o IntToStr(now.day) \o <<"d">> \o IntToStr(now.ms)
                   \o <<"@", "p", "r", "e", "s", "s", "u", "r", "e", "w", "a", "s", "h">>),
       Line("DTSTAMP", toICSDate(toISOString(now))),
       Line("DTSTART", toICSDate(startISO)),
       Line("DTEND", toICSDate(endISO)),
       Line("SUMMARY", summary),
       Line("DESCRIPTION", EscapeNewlines(description)),
       Line("END", <<"V", "E", "V", "E", "N", "T">>),
       Line("END", <<"V", "C", "A", "L", "E", "N", "D", "A", "R">>) >>

(***************************************************************************)
(* The request handler's pure steps (server.js 113-203)                    *)
(***************************************************************************)
RequiredFields ==
    {"name", "email", "phone", "address", "serviceType", "preferredDate", "preferredTime"}

\* variant: no honeypot check
HoneypotIgnored(body) == FALSE

\* website && website.trim() !== ''
HoneypotFilled(body) == ~Falsy(body.website) /\ Trim(body.website) # <<>>

\* !name || !email || !phone || !address || !serviceType || !preferredDate || !preferredTime
MissingRequired(body) == \E f \in RequiredFields : Falsy(body[f])

Clean(body) ==
    [name          |-> sanitizeSmallText(body.name),
     email         |-> sanitizeSmallText(body.email),
     phone         |-> sanitizeSmallText(body.phone),
     address       |-> sanitizeText(body.address),
     serviceType   |-> sanitizeSmallText(body.serviceType),
     sqft          |-> toInt(body.sqft),
     preferredDate |-> sanitizeSmallText(body.preferredDate),
     preferredTime |-> sanitizeSmallText(body.preferredTime),
     notes         |-> sanitizeText(body.notes)]

\* the row the INSERT statement writes
Row(id, clean, createdAt) ==
    [id            |-> id,
     name          |-> clean.name,
     email         |-> clean.email,
     phone         |-> clean.phone,
     address       |-> clean.address,
     serviceType   |-> clean.serviceType,
     sqft          |-> clean.sqft,
     preferredDate |-> clean.preferredDate,
     preferredTime |-> clean.preferredTime,
     notes         |-> clean.notes,
     createdAt     |-> createdAt]

\* the string handed to new Date for the appointment start
AppointmentString(clean) ==
    clean.preferredDate \o <<"T">> \o clean.preferredTime \o <<":", "0", "0">>

\* variant: the hour added in seconds, not milliseconds
AppointmentEndShort(start) ==
    IF start.valid THEN TimeValue(start.day, start.ms + 60 * 60) ELSE InvalidDate

\* new Date(appointmentStart.getTime() + 60*60*1000)
AppointmentEnd(start) ==
    IF start.valid THEN TimeValue(start.day, start.ms + 60 * 60 * 1000) ELSE InvalidDate

Summary(clean) == BRAND_NAME \o <<" ", EmDash, " ">> \o clean.serviceType

Description(clean) ==
    Join(SelectSeq(
           << <<"N", "a", "m", "e", ":", " ">> \o clean.name,
              <<"E", "m", "a", "i", "l", ":", " ">> \o clean.email,
              <<"P", "h", "o", "n", "e", ":", " ">> \o clean.phone,
              <<"A", "d", "d", "r", "e", "s", "s", ":", " ">> \o clean.address,
              <<"S", "e", "r", "v", "i", "c", "e", ":", " ">> \o clean.serviceType,
              <<"S", "q", " ", "F", "t", ":", " ">> \o (IF clean.sqft.null THEN <<"N", "/", "A">> ELSE IntToStr(clean.sqft.val)),
              <<"P", "r", "e", "f", "e", "r", "r", "e", "d", ":", " ">> \o clean.preferredDate \o <<" ">> \o clean.preferredTime,
              IF clean.notes # <<>> THEN <<"N", "o", "t", "e", "s", ":", " ">> \o clean.notes ELSE <<>> >>,
           LAMBDA part : part # <<>>),
         <<"\n">>)

Attachment(ics) == [filename |-> "booking.ics", content |-> ics, contentType |-> "text/calendar"]

OwnerMail(fromEmail, toEmail, clean, description, ics) ==
    [kind        |-> "owner",
     from        |-> fromEmail,
     to          |-> toEmail,
     subject     |-> <<"N", "e", "w", " ", "B", "o", "o", "k", "i", "n", "g">> \o <<" ", EmDash, " ">> \o clean.name
                     \o <<" ", EmDash, " ">> \o clean.serviceType,
     text        |-> description,
     attachments |-> <<Attachment(ics)>>]

CustomerMail(fromEmail, clean, ics) ==
    [kind        |-> "customer",
     from        |-> fromEmail,
     to          |-> clean.email,
     subject     |-> <<"T", "h", "a", "n", "k", "s", "!", " ", "W", "e", " ", "r", "e", "c", "e", "i", "v", "e", "d", " ", "y", "o", "u", "r", " ", "r", "e", "q", "u", "e", "s", "t">> \o <<" ", EmDash, " ">> \o BRAND_NAME,
     text        |-> <<"H", "i", " ">> \o clean.name \o <<",", "\n", "\n", "T", "h", "a", "n", "k", "s", " ", "f", "o", "r", " ", "r", "e", "a", "c", "h", "i", "n", "g", " ", "o", "u", "t", " ", "t", "o", " ">> \o BRAND_NAME
                     \o <<"!", "\n", "\n", "W", "e", " ", "h", "a", "v", "e", " ", "y", "o", "u", "r", " ", "r", "e", "q", "u", "e", "s", "t", " ", "f", "o", "r", " ">> \o clean.serviceType
                     \o <<" ", "a", "t", " ">> \o clean.address \o <<" ", "o", "n", " ">> \o clean.preferredDate
                     \o <<" ", "a", "t", " ">> \o clean.preferredTime \o <<".", " ", "W", "e", "'", "l", "l", " ", "c", "o", "n", "f", "i", "r", "m", " ", "s", "h", "o", "r", "t", "l", "y", ".", "\n", "\n">>
                     \o <<EmDash, " ">> \o BRAND_NAME,
     attachments |-> <<Attachment(ics)>>]

(***************************************************************************)
(* Request bodies the clients submit                                       *)
(***************************************************************************)
BodyFields ==
    RequiredFields \cup {"sqft", "notes", "website", "createdAt"}

\* the example submission of the booking form
BaseBody ==
    [name          |-> <<"J", "o">>,
     email         |-> <<"j", "o", "@", "x", ".", "c", "o", "m">>,
     phone         |-> <<"5", "5", "5", "-", "1", "2", "1", "2">>,
     address       |-> <<"1", " ", "M", "a", "i", "n", " ", "S", "t">>,
     serviceType   |-> <<"D", "r", "i", "v", "e", "w", "a", "y">>,
     sqft          |-> <<"1", "5", "0", "0">>,
     preferredDate |-> <<"2", "0", "2", "5", "-", "0", "6", "-", "0", "1">>,
     preferredTime |-> <<"0", "9", ":", "0", "0">>,
     notes         |-> Undef,
     website       |-> Undef,
     createdAt     |-> Undef]

\* a second customer, all of whose fields differ from the first one's
OtherBody ==
    [name          |-> <<"A", "l">>,
     email         |-> <<"a", "l", "@", "y", ".", "o", "r", "g">>,
     phone         |-> <<"(", "5", "5", "5", ")", " ", "8", "6", "7", "-", "5", "3", "0", "9">>,
     address       |-> <<"2", " ", "O", "a", "k", " ", "A", "v", "e">>,
     serviceType   |-> <<"P", "a", "t", "i", "o">>,
     sqft          |-> Undef,
     preferredDate |-> <<"2", "0", "2", "5", "-", "0", "7", "-", "0", "4">>,
     preferredTime |-> <<"1", "4", ":", "3", "0">>,
     notes         |-> <<"g", "a", "t", "e", " ", "c", "o", "d", "e", " ", "1", "2", "\n", "t", "h", "a", "n", "k", "s">>,
     website       |-> <<>>,
     createdAt     |-> Undef]

NameValues == {Undef, Rep("n", SmallTextMax + 1), <<>>, <<" ", " ", " ">>, <<"J", "o">>, <<" ", "J", "o", " ">>}

EmailValues == {Undef, Rep("a", SmallTextMax - 1) \o <<"@", "b", ".", "c">>, Rep("a", SmallTextMax - 4) \o <<"@", "b", ".", "c">>, <<>>, <<" ">>, <<"n", "o", "t", "-", "a", "n", "-", "e", "m", "a", "i", "l">>, <<"j", "o", "@", "x", ".", "c", "o", "m">>, <<" ", "j", "o", "@", "x", ".", "c", "o", "m">>, <<"j", "o", "@", "x">>, <<"a", "@", "b", "@", "c", ".", "d">>}

PhoneValues == {Undef, Rep("5", SmallTextMax + 1), <<>>, <<"5", "5", "5", "-", "1", "2", "1", "2">>, <<"1", "2", "3", "4", "5">>, <<" ", " ", " ", " ", " ", " ", " ">>, <<" ", "5", "5", "5", "-", "1", "2", " ">>, <<"5", "5", "5", "-", "C", "A", "L", "L">>, <<"+", "1", " ", "(", "5", "5", "5", ")", " ", "1", "2", "1", "-", "2", "0", "0", "0">>}

AddressValues == {Undef, Rep("a", TextMax + 1), <<>>, <<" ", "\t">>, <<"1", " ", "M", "a", "i", "n", " ", "S", "t">>}

ServiceValues == {Undef, <<>>, <<" ">>, <<"D", "r", "i", "v", "e", "w", "a", "y">>}

SqftValues == {Undef, <<>>, <<"a", "b", "c">>, <<"1", "5", "0", "0">>, <<"1", "2", "a", "b", "c">>, <<" ", "4", "2">>, <<"-", "5">>, <<"+", "7">>, <<"-">>, <<"3", ".", "7">>, <<"0">>, <<" ">>}

DateValues == {<<"2", "0", "2", "5", "-", "0", "6", "-", "0", "1">>, <<"2", "0", "2", "4", "-", "1", "2", "-", "3", "1">>, <<"2", "0", "2", "4", "-", "0", "2", "-", "2", "8">>, <<"2", "0", "2", "5", "-", "0", "2", "-", "2", "8">>}

BadDateValues == {Undef, <<>>, <<" ">>, <<"t", "o", "m", "o", "r", "r", "o", "w">>, <<"2", "0", "2", "5", "-", "1", "3", "-", "0", "1">>, <<"2", "0", "2", "5", "-", "0", "2", "-", "3", "0">>}

TimeValues == {<<"0", "9", ":", "0", "0">>, <<"2", "3", ":", "3", "0">>, <<"0", "0", ":", "1", "5">>}

BadTimeValues == {Undef, <<>>, <<" ">>, <<"9", "a", "m">>, <<"0", "9", ":", "0", "0", ":", "3", "0">>, <<"2", "5", ":", "0", "0">>}

NotesValues == {Undef, <<>>, <<"h", "i">>, <<"a", "\n", "b">>}

WebsiteValues == {Undef, <<>>, <<" ">>, <<"h", "t", "t", "p", ":", "/", "/", "s", "p", "a", "m", ".", "b", "i", "z">>}

CreatedAtValues == {Undef, <<"1", "9", "9", "9", "-", "0", "1", "-", "0", "1", "T", "0", "0", ":", "0", "0", ":", "0", "0", ".", "0", "0", "0", "Z">>}

\* the base submission with one field (or the date and time) replaced
OneOff ==
    {[BaseBody EXCEPT !.name = v] : v \in NameValues}
    \cup {[BaseBody EXCEPT !.email = v] : v \in EmailValues}
    \cup {[BaseBody EXCEPT !.phone = v] : v \in PhoneValues}
    \cup {[BaseBody EXCEPT !.address = v] : v \in AddressValues}
    \cup {[BaseBody EXCEPT !.serviceType = v] : v \in ServiceValues}
    \cup {[BaseBody EXCEPT !.sqft = v] : v \in SqftValues}
    \cup {[BaseBody EXCEPT !.preferredDate = d, !.preferredTime = t] :
             d \in DateValues, t \in TimeValues}
    \cup {[BaseBody EXCEPT !.preferredDate = d] : d \in BadDateValues}
    \cup {[BaseBody EXCEPT !.preferredTime = t] : t \in BadTimeValues}
    \cup {[BaseBody EXCEPT !.notes = v] : v \in NotesValues}
    \cup {[BaseBody EXCEPT !.createdAt = v] : v \in CreatedAtValues}
    \cup {[BaseBody EXCEPT !.email = <<"n", "o", "t", "-", "a", "n", "-", "e", "m", "a", "i", "l">>, !.phone = <<"1", "2", "3", "4", "5">>],
          [BaseBody EXCEPT !.name = Undef, !.email = <<"n", "o", "t", "-", "a", "n", "-", "e", "m", "a", "i", "l">>],
          [BaseBody EXCEPT !.name = <<" ">>, !.phone = <<"1", "2", "3", "4", "5">>],
          OtherBody}

\* the submissions of the single-client workload: each of the above with the
\* honeypot field absent and filled in, and some with it empty or blank
RichPool ==
    OneOff
    \cup {[b EXCEPT !.website = <<"h", "t", "t", "p", ":", "/", "/", "s", "p", "a", "m", ".", "b", "i", "z">>] : b \in OneOff}
    \cup {[b EXCEPT !.website = w] :
             b \in {BaseBody, OtherBody, [BaseBody EXCEPT !.name = Undef],
                    [BaseBody EXCEPT !.email = <<"n", "o", "t", "-", "a", "n", "-", "e", "m", "a", "i", "l">>],
                    [BaseBody EXCEPT !.phone = <<"1", "2", "3", "4", "5">>]},
             w \in WebsiteValues}

\* the submissions of the concurrent workload
ConcPool ==
    {BaseBody, OtherBody,
     [BaseBody EXCEPT !.email = <<"n", "o", "t", "-", "a", "n", "-", "e", "m", "a", "i", "l">>],
     [OtherBody EXCEPT !.website = <<"h", "t", "t", "p", ":", "/", "/", "s", "p", "a", "m", ".", "b", "i", "z">>]}

(***************************************************************************)
(* The server: state and steps                                             *)
(***************************************************************************)
\* the requests one run handles
MaxReq == 2

\* the last reading of the server clock, in milliseconds after the server start
MaxClock == 1

VARIABLES
    workload,   \* "single": one client, any submission; "concurrent": several clients
    env,        \* process.env: TO_EMAIL, the sender address, the time zone offset
    clock,      \* the server clock
    reqs,       \* per request: the handler's position, its locals and its response
    store       \* the bookings table, in insertion order

vars == <<workload, env, clock, reqs, store>>

Requests == 1..MaxReq

Clients == IF workload = "single" THEN {1} ELSE Requests

Pool == IF workload = "single" THEN RichPool ELSE ConcPool

\* new Date() at clock reading c; the server started 2025-05-20T23:59:59.999Z
Now(c) == TimeValue(MakeDay(2025, 5, 20), MsPerDay - 1 + c)

EnvChoices ==
    {[TO_EMAIL |-> to, FROM_EMAIL |-> <<"n", "o", "r", "e", "p", "l", "y", "@", "x", ".", "c", "o", "m">>, tz |-> z] :
        to \in {Undef, <<"o", "w", "n", "e", "r", "@", "x", ".", "c", "o", "m">>}, z \in {420, 0, 0 - 330}}

NoResponse == [status |-> 0, ok |-> FALSE, text |-> ""]

EmptyBody == [f \in BodyFields |-> Undef]

\* a request that has not arrived.  rows and failure record what happened, for
\* the properties: the ids of the rows this request inserted, and the step that threw
IdleRequest ==
    [pc        |-> "idle",
     body      |-> EmptyBody,
     arrival   |-> 0,
     clean     |-> Clean(EmptyBody),
     createdAt |-> <<>>,
     ics       |-> <<>>,
     customer  |-> <<>>,
     sent      |-> <<>>,
     resp      |-> NoResponse,
     rows      |-> {},
     failure   |-> "none"]

\* the server has started (initDb has created the empty table) and listens
Init ==
    /\ \/ workload = "single" /\ env \in EnvChoices
       \/ workload = "concurrent" /\ env \in {e \in EnvChoices : e.tz = 420}
    /\ clock = 0
    /\ reqs = [r \in Requests |-> IdleRequest]
    /\ store = <<>>

\* res.status(status).json({ ok, message or error })
Respond(q, status, ok, text) ==
    [q EXCEPT !.pc = "done", !.resp = [status |-> status, ok |-> ok, text |-> text]]

\* the catch block: console.error(err); res.status(500).json(...)
Catch(q, step) ==
    [Respond(q, 500, FALSE, "Server error.") EXCEPT !.failure = step]

\* variant: the id taken from the row count, off by one
NextRowIdReused(rows) == IF rows = <<>> THEN 1 ELSE Len(rows)

\* AUTOINCREMENT: one more than the largest id the table has held
NextRowId(rows) ==
    IF rows = <<>> THEN 1
    ELSE 1 + (CHOOSE n \in {rows[i].id : i \in 1..Len(rows)} :
                 \A i \in 1..Len(rows) : rows[i].id <= n)

\* a request arrives; requests are numbered in their order of arrival
Receive(r) ==
    /\ r \in Clients
    /\ reqs[r].pc = "idle"
    /\ \A p \in Clients : p < r => reqs[p].pc # "idle"
    /\ \E body \in Pool :
          reqs' = [reqs EXCEPT ![r] = [@ EXCEPT !.pc = "received", !.body = body,
                                                 !.arrival = clock]]
    /\ UNCHANGED <<workload, env, clock, store>>

\* variant: the phone is checked before the email
ValidatePhoneFirst(q, now) ==
    IF HoneypotFilled(q.body) THEN Respond(q, 200, TRUE, "Thanks!")
    ELSE IF MissingRequired(q.body) THEN Respond(q, 400, FALSE, "Missing required fields.")
    ELSE IF ~isPhone(q.body.phone) THEN Respond(q, 400, FALSE, "Invalid phone number.")
    ELSE IF ~isEmail(q.body.email) THEN Respond(q, 400, FALSE, "Invalid email address.")
    ELSE [q EXCEPT !.pc = "inserting", !.clean = Clean(q.body),
                   !.createdAt = toISOString(now)]

\* the handler up to its first await: honeypot, validation, sanitizing, createdAt,
\* and the call of db.run
Validate(q, now) ==
    IF HoneypotFilled(q.body) THEN Respond(q, 200, TRUE, "Thanks!")
    ELSE IF MissingRequired(q.body) THEN Respond(q, 400, FALSE, "Missing required fields.")
    ELSE IF ~isEmail(q.body.email) THEN Respond(q, 400, FALSE, "Invalid email address.")
    ELSE IF ~isPhone(q.body.phone) THEN Respond(q, 400, FALSE, "Invalid phone number.")
    ELSE [q EXCEPT !.pc = "inserting", !.clean = Clean(q.body),
                   !.createdAt = toISOString(now)]

Handle(r) ==
    /\ reqs[r].pc = "received"
    /\ reqs' = [reqs EXCEPT ![r] = Validate(@, Now(clock))]
    /\ UNCHANGED <<workload, env, clock, store>>

\* db.run resolves: the row is in the table
DbRunOk(r) ==
    /\ reqs[r].pc = "inserting"
    /\ LET id == NextRowId(store)
       IN  /\ store' = Append(store, Row(id, reqs[r].clean, reqs[r].createdAt))
           /\ reqs' = [reqs EXCEPT ![r] = [@ EXCEPT !.pc = "inserted", !.rows = @ \cup {id}]]
    /\ UNCHANGED <<workload, env, clock>>

\* variant: the rejection is swallowed and the handler goes on
AfterDbFailureIgnored(q) == [q EXCEPT !.pc = "inserted", !.failure = "db"]

\* what the handler does when db.run rejects
AfterDbFailure(q) == Catch(q, "db")

\* db.run rejects: nothing is written
DbRunFail(r) ==
    /\ reqs[r].pc = "inserting"
    /\ reqs' = [reqs EXCEPT ![r] = AfterDbFailure(@)]
    /\ UNCHANGED <<workload, env, clock, store>>

\* transporter.sendMail(mail) is called
Send(q, mail, pc) == [q EXCEPT !.pc = pc, !.sent = Append(@, mail)]

\* if (isEmail(clean.email)) await sendMail(customerMail); res.json(...)
CustomerStep(q) ==
    IF isEmail(q.clean.email) THEN Send(q, q.customer[1], "sendingCustomer")
    ELSE Respond(q, 200, TRUE, "Booking received.")

\* if (!toEmail) skip the owner notification, else await sendMail(ownerMail)
OwnerStep(q, ownerMail) ==
    IF Falsy(env.TO_EMAIL) THEN CustomerStep(q)
    ELSE Send(q, ownerMail, "sendingOwner")

\* after the insert: the appointment window, the calendar text, the two mails,
\* and the first send; start is what new Date made of the appointment string
Notify(q, start, now) ==
    IF ~start.valid THEN Catch(q, "ics")
    ELSE
      LET description == Description(q.clean)
          ics == buildICS(Summary(q.clean), description, toISOString(start),
                          toISOString(AppointmentEnd(start)), now)
          withMails == [q EXCEPT !.ics = ics,
                          !.customer = <<CustomerMail(env.FROM_EMAIL, q.clean, ics)>>]
      IN  OwnerStep(withMails,
                    OwnerMail(env.FROM_EMAIL, env.TO_EMAIL, q.clean, description, ics))

Continue(r) ==
    /\ reqs[r].pc = "inserted"
    /\ \E start \in DateParse(AppointmentString(reqs[r].clean), env.tz) :
          reqs' = [reqs EXCEPT ![r] = Notify(@, start, Now(clock))]
    /\ UNCHANGED <<workload, env, clock, store>>

\* variant: a mail failure is reported as such
AfterOwnerFailureReported(q) ==
    [Respond(q, 502, FALSE, "Booking saved, email failed.") EXCEPT !.failure = "owner"]

\* what the handler does when the owner mail's sendMail rejects
AfterOwnerFailure(q) == Catch(q, "owner")

OwnerSent(r) ==
    /\ reqs[r].pc = "sendingOwner"
    /\ reqs' = [reqs EXCEPT ![r] = CustomerStep(@)]
    /\ UNCHANGED <<workload, env, clock, store>>

OwnerFailed(r) ==
    /\ reqs[r].pc = "sendingOwner"
    /\ reqs' = [reqs EXCEPT ![r] = AfterOwnerFailure(@)]
    /\ UNCHANGED <<workload, env, clock, store>>

CustomerSent(r) ==
    /\ reqs[r].pc = "sendingCustomer"
    /\ reqs' = [reqs EXCEPT ![r] = Respond(@, 200, TRUE, "Booking received.")]
    /\ UNCHANGED <<workload, env, clock, store>>

CustomerFailed(r) ==
    /\ reqs[r].pc = "sendingCustomer"
    /\ reqs' = [reqs EXCEPT ![r] = Catch(@, "customer")]
    /\ UNCHANGED <<workload, env, clock, store>>

\* time passes until the request of the single-client workload is answered; the
\* requests of the concurrent workload are simultaneous: one clock reading
Tick ==
    /\ workload = "single"
    /\ clock < MaxClock
    /\ \E r \in Clients : reqs[r].pc # "done"
    /\ clock' = clock + 1
    /\ UNCHANGED <<workload, env, reqs, store>>

Next ==
    \/ \E r \in Requests : Receive(r)
    \/ \E r \in Requests : Handle(r)
    \/ \E r \in Requests : DbRunOk(r)
    \/ \E r \in Requests : DbRunFail(r)
    \/ \E r \in Requests : Continue(r)
    \/ \E r \in Requests : OwnerSent(r)
    \/ \E r \in Requests : OwnerFailed(r)
    \/ \E r \in Requests : CustomerSent(r)
    \/ \E r \in Requests : CustomerFailed(r)
    \/ Tick

Spec == Init /\ [][Next]_vars

(***************************************************************************)
(* Vocabulary of the properties                                            *)
(***************************************************************************)
Done(r) == reqs[r].pc = "done"

\* an absent value, or a string of white space only (empty after trimming)
Blank(v) == v = Undef \/ \A i \in 1..Len(v) : v[i] \in WhiteSpace

\* a value that is there and not the empty string
Present(v) == v # Undef /\ Len(v) > 0

AllPresent(body) == \A f \in RequiredFields : Present(body[f])

\* honeypot empty, the seven required fields present, email and phone pass
ValidSubmission(body) ==
    /\ Blank(body.website)
    /\ AllPresent(body)
    /\ isEmail(body.email)
    /\ isPhone(body.phone)

ServerError == [status |-> 500, ok |-> FALSE, text |-> "Server error."]

\* the rows of the table that request r inserted
RowsOf(r) == {i \in 1..Len(store) : store[i].id \in reqs[r].rows}

\* every row of the table was inserted by exactly one request, and every insert
\* a request made is a row of the table
StoreAccounted ==
    /\ \A i \in 1..Len(store) :
          Cardinality({r \in Requests : store[i].id \in reqs[r].rows}) = 1
    /\ \A r \in Requests : Cardinality(RowsOf(r)) = Cardinality(reqs[r].rows)

\* request r has written nothing and sent nothing
NoTrace(r) == reqs[r].rows = {} /\ reqs[r].sent = <<>> /\ StoreAccounted

\* the kinds of the mails request r has handed to sendMail, in order
SentKinds(r) == [i \in 1..Len(reqs[r].sent) |-> reqs[r].sent[i].kind]

\* the first n characters of s, or all of s when it has no more
CutTo(s, n) == IF Len(s) <= n THEN s ELSE [i \in 1..n |-> s[i]]

\* the clock readings at which a timestamp string was taken
ClockReadings(iso) == {c \in 0..MaxClock : iso = toISOString(Now(c))}

(***************************************************************************)
(* C1                                                                      *)
(***************************************************************************)
\* what holds of every request with a valid submission, whatever became of its
\* append: at most one row, which carries the sanitized fields of this very
\* submission and a createdAt read off the server clock at or after arrival
OwnRowOnly(r) ==
    /\ Cardinality(reqs[r].rows) <= 1
    /\ \A i \in RowsOf(r) :
          /\ \A f \in RequiredFields \ {"address"} :
                store[i][f] = CutTo(Trim(reqs[r].body[f]), SmallTextMax)
          /\ store[i].address = CutTo(Trim(reqs[r].body.address), TextMax)
          /\ store[i].notes = CutTo(Trim(OrEmpty(reqs[r].body.notes)), TextMax)
          /\ \E c \in ClockReadings(store[i].createdAt) :
                reqs[r].arrival <= c /\ c <= clock

\* the ids of the table are pairwise distinct
DistinctIds == \A i, j \in 1..Len(store) : store[i].id = store[j].id => i = j

\* C1 as claimed: every valid submission, once answered, has appended exactly one
\* record with a server createdAt at or after its arrival, N of them N records
\* with pairwise distinct ids, each with the fields of its own submission only.
C1_Original ==
    \A r \in Requests :
        (Done(r) /\ ValidSubmission(reqs[r].body)) =>
            Cardinality(reqs[r].rows) = 1 /\ OwnRowOnly(r) /\ DistinctIds /\ StoreAccounted

\* C1 as amended: every valid submission whose store append does not fail appends
\* exactly one record (one whose append fails appends none), with createdAt read
\* off the server clock at or after the request's arrival; under any interleaving
\* the table holds one record per valid submission whose append succeeded, with
\* pairwise distinct ids, each record holding the fields of its own submission.
C1_ExactlyOneRecord ==
    /\ DistinctIds
    /\ StoreAccounted
    /\ \A r \in Requests :
          /\ ~ValidSubmission(reqs[r].body) => reqs[r].rows = {}
          /\ ValidSubmission(reqs[r].body) =>
                /\ OwnRowOnly(r)
                /\ Done(r) => Cardinality(reqs[r].rows) =
                                 (IF reqs[r].failure = "db" THEN 0 ELSE 1)
    /\ (\A r \in Clients : Done(r)) =>
          Len(store) = Cardinality({r \in Clients :
                           ValidSubmission(reqs[r].body) /\ reqs[r].failure # "db"})

\* two simultaneous valid submissions of different customers, both answered and
\* both stored, the later arrival's row first
C1_Witness ==
    /\ workload = "concurrent"
    /\ Done(1) /\ Done(2)
    /\ ValidSubmission(reqs[1].body) /\ ValidSubmission(reqs[2].body)
    /\ reqs[1].body # reqs[2].body
    /\ Len(store) = 2 /\ store[1].id \in reqs[2].rows /\ store[2].id \in reqs[1].rows

(***************************************************************************)
(* C2                                                                      *)
(***************************************************************************)
\* C2 as claimed: a submission with an empty honeypot in which a required field is
\* missing or empty after trimming is answered 400 "Missing required fields." and
\* nothing is persisted.
C2_Claim ==
    \A r \in Requests :
        (/\ reqs[r].pc # "idle"
         /\ Blank(reqs[r].body.website)
         /\ \E f \in RequiredFields : Blank(reqs[r].body[f])) =>
            /\ reqs[r].rows = {}
            /\ Done(r) => reqs[r].resp = [status |-> 400, ok |-> FALSE,
                                          text |-> "Missing required fields."]

(***************************************************************************)
(* C3                                                                      *)
(***************************************************************************)
InvalidEmailResponse == [status |-> 400, ok |-> FALSE, text |-> "Invalid email address."]

InvalidPhoneResponse == [status |-> 400, ok |-> FALSE, text |-> "Invalid phone number."]

\* the answer C3 names for a submission with all required fields present
FormatRejected(r) ==
    /\ NoTrace(r)
    /\ reqs[r].pc \in {"received", "done"}
    /\ Done(r) =>
          reqs[r].resp = (IF ~isEmail(reqs[r].body.email) THEN InvalidEmailResponse
                          ELSE InvalidPhoneResponse)

\* C3 as claimed: with all required fields present, a failing email is answered 400
\* with the email error, a passing email and a failing phone 400 with the phone
\* error, both before persistence: nothing stored, nothing sent.
C3_Original ==
    \A r \in Requests :
        (/\ reqs[r].pc # "idle"
         /\ AllPresent(reqs[r].body)
         /\ ~isEmail(reqs[r].body.email) \/ ~isPhone(reqs[r].body.phone)) =>
            FormatRejected(r)

\* C3 as amended: the same, for submissions whose honeypot is empty after trimming.
C3_FormatChecks ==
    \A r \in Requests :
        (/\ reqs[r].pc # "idle"
         /\ Blank(reqs[r].body.website)
         /\ AllPresent(reqs[r].body)
         /\ ~isEmail(reqs[r].body.email) \/ ~isPhone(reqs[r].body.phone)) =>
            FormatRejected(r)

\* a submission whose email and phone both fail has been answered
C3_Witness ==
    \E r \in Requests :
        /\ Done(r)
        /\ Blank(reqs[r].body.website) /\ AllPresent(reqs[r].body)
        /\ ~isEmail(reqs[r].body.email) /\ ~isPhone(reqs[r].body.phone)
        /\ reqs[r].resp = InvalidEmailResponse

(***************************************************************************)
(* C4                                                                      *)
(***************************************************************************)
\* the silent rejection: success reported, nothing stored, nothing sent
SilentlyDropped(r) ==
    /\ NoTrace(r)
    /\ reqs[r].pc \in {"received", "done"}
    /\ Done(r) => reqs[r].resp.status = 200 /\ reqs[r].resp.ok

\* C4 as claimed: whenever the honeypot field is non-empty, whatever the other
\* fields hold, the handler reports success, persists nothing and sends nothing.
C4_Original ==
    \A r \in Requests :
        (reqs[r].pc # "idle" /\ Present(reqs[r].body.website)) => SilentlyDropped(r)

\* C4 as amended: the same, whenever the honeypot field is non-empty after trimming
\* white space.
C4_Honeypot ==
    \A r \in Requests :
        (reqs[r].pc # "idle" /\ ~Blank(reqs[r].body.website)) => SilentlyDropped(r)

\* a submission with the honeypot filled in and a required field missing has been
\* answered
C4_Witness ==
    \E r \in Requests :
        /\ Done(r)
        /\ ~Blank(reqs[r].body.website)
        /\ ~AllPresent(reqs[r].body)
        /\ reqs[r].resp = [status |-> 200, ok |-> TRUE, text |-> "Thanks!"]

(***************************************************************************)
(* C5                                                                      *)
(***************************************************************************)
\* C5 as claimed: in every row of the table the seven required fields are non-empty,
\* the email matches the email pattern, the phone matches the phone pattern and
\* createdAt is a reading of the server clock, not a value of the request body.
C5_Claim ==
    \A i \in 1..Len(store) :
        /\ \A f \in RequiredFields : store[i][f] # <<>>
        /\ isEmail(store[i].email)
        /\ isPhone(store[i].phone)
        /\ ClockReadings(store[i].createdAt) # {}

(***************************************************************************)
(* C6                                                                      *)
(***************************************************************************)
\* C6: when a mail send fails after the record was persisted, the answer is the
\* generic 500 "Server error.", the same answer as when persistence fails, with no
\* error detail in it, and the persisted record stays in the table.
C6_MailFailure ==
    \A r \in Requests :
        /\ reqs[r].failure \in {"owner", "customer"} =>
              /\ Done(r)
              /\ reqs[r].resp = ServerError
              /\ Cardinality(RowsOf(r)) = 1
              /\ \A p \in Requests : reqs[p].failure = "db" => reqs[p].resp = reqs[r].resp
        /\ (reqs[r].failure = "db" /\ Done(r)) => reqs[r].resp = ServerError

\* one request answered after its owner mail failed, its row still in the table,
\* and another answered after its insert failed
C6_Witness ==
    \E r, p \in Requests :
        /\ Done(r) /\ reqs[r].failure = "owner" /\ RowsOf(r) # {}
        /\ Done(p) /\ reqs[p].failure = "db"

(***************************************************************************)
(* C7                                                                      *)
(***************************************************************************)
\* a decimal number and nothing else: an optional sign, digits, optionally a point
\* and more digits, white space around it allowed
NumericText(v) ==
    /\ v # Undef
    /\ \E a \in 1..Len(v) : \E b \in a..Len(v) :
          /\ \A i \in (1..(a - 1)) \cup ((b + 1)..Len(v)) : v[i] \in WhiteSpace
          /\ v[a] \in Digit \cup {"+", "-"}
          /\ v[b] \in Digit
          /\ \A i \in (a + 1)..b : v[i] \in Digit \cup {"."}
          /\ Cardinality({i \in a..b : v[i] = "."}) <= 1

\* the index of the first digit of v when v is white space, an optional sign and
\* then a digit; 0 when v does not start so
FirstDigit(v) ==
    IF v = Undef THEN 0
    ELSE LET starts == {k \in 1..Len(v) :
                          /\ v[k] \in Digit
                          /\ \/ \A i \in 1..(k - 1) : v[i] \in WhiteSpace
                             \/ /\ k > 1 /\ v[k - 1] \in {"+", "-"}
                                /\ \A i \in 1..(k - 2) : v[i] \in WhiteSpace}
         IN  IF starts = {} THEN 0 ELSE CHOOSE k \in starts : TRUE

\* the integer that the sign and the digits from index k on denote
LeadingInteger(v, k) ==
    LET last == CHOOSE e \in k..Len(v) :
                    /\ \A i \in k..e : v[i] \in Digit
                    /\ e = Len(v) \/ v[e + 1] \notin Digit
        mag  == Num(SubSeq(v, k, last))
    IN  IF k > 1 /\ v[k - 1] = "-" THEN 0 - mag ELSE mag

\* sqft never decides the answer: a 400 has a required field, the email or the
\* phone as its reason, a 500 a failed insert, date or mail
SqftNeverFails(r) ==
    /\ reqs[r].resp.status = 400 =>
          \/ ~AllPresent(reqs[r].body)
          \/ ~isEmail(reqs[r].body.email)
          \/ ~isPhone(reqs[r].body.phone)
    /\ reqs[r].resp.status = 500 => reqs[r].failure \in {"db", "ics", "owner", "customer"}
    /\ (Done(r) /\ ValidSubmission(reqs[r].body)) => reqs[r].resp.status # 400

\* C7 as claimed: whatever sqft holds, coercion raises no error and causes no
\* validation failure; non-numeric input is stored as null and numeric input as
\* the integer.
C7_Original ==
    \A r \in Requests :
        /\ SqftNeverFails(r)
        /\ \A i \in RowsOf(r) :
              store[i].sqft = (IF NumericText(reqs[r].body.sqft)
                               THEN IntValue(LeadingInteger(reqs[r].body.sqft,
                                                            FirstDigit(reqs[r].body.sqft)))
                               ELSE Null)

\* C7 as amended: whatever sqft holds, coercion raises no error and causes no
\* validation failure; input that does not begin (after white space and an optional
\* sign) with a decimal digit is stored as null, and any other input as the
\* integer its sign and leading digits denote, whatever follows them.
C7_SqftCoercion ==
    \A r \in Requests :
        /\ SqftNeverFails(r)
        /\ \A i \in RowsOf(r) :
              store[i].sqft = (IF FirstDigit(reqs[r].body.sqft) # 0
                               THEN IntValue(LeadingInteger(reqs[r].body.sqft,
                                                            FirstDigit(reqs[r].body.sqft)))
                               ELSE Null)

\* a row stored for a submission whose sqft is digits followed by other text
C7_Witness ==
    \E r \in Requests : \E i \in RowsOf(r) :
        /\ FirstDigit(reqs[r].body.sqft) # 0
        /\ ~NumericText(reqs[r].body.sqft)
        /\ ~store[i].sqft.null

(***************************************************************************)
(* C8                                                                      *)
(***************************************************************************)
\* the value of the line named name of a calendar text
IcsValue(ics, name) == ics[CHOOSE i \in 1..Len(ics) : ics[i].name = name].value

\* a timestamp in the basic format YYYYMMDDTHHMMSSZ
IsBasicUtc(s) ==
    /\ Len(s) = 16 /\ s[9] = "T" /\ s[16] = "Z"
    /\ \A i \in (1..15) \ {9} : s[i] \in Digit

\* the seconds since 1970-01-01T00:00:00Z that a basic-format timestamp denotes
IcsSeconds(s) ==
    MakeDay(Num(SubSeq(s, 1, 4)), Num(SubSeq(s, 5, 6)), Num(SubSeq(s, 7, 8))) * 86400
    + Num(SubSeq(s, 10, 11)) * 3600 + Num(SubSeq(s, 12, 13)) * 60 + Num(SubSeq(s, 14, 15))

\* the seconds since the epoch of the local date and time "YYYY-MM-DD", "HH:mm"
LocalSeconds(date, time, tz) ==
    MakeDay(Num(SubSeq(date, 1, 4)), Num(SubSeq(date, 6, 7)), Num(SubSeq(date, 9, 10))) * 86400
    + Num(SubSeq(time, 1, 2)) * 3600 + Num(SubSeq(time, 4, 5)) * 60 + tz * 60

\* DTEND is DTSTART plus 3600 seconds
OneHourWindow(ics) ==
    /\ IsBasicUtc(IcsValue(ics, "DTSTART"))
    /\ IsBasicUtc(IcsValue(ics, "DTEND"))
    /\ IcsSeconds(IcsValue(ics, "DTEND")) = IcsSeconds(IcsValue(ics, "DTSTART")) + 3600

\* C8: of every booking for which a calendar payload is built, DTEND is exactly
\* DTSTART + 3600 seconds, DTSTART being preferredDate + preferredTime, whatever
\* the service type, and both mails carry that same window.
C8_OneHour ==
    \A r \in Requests :
        reqs[r].ics # <<>> =>
            /\ OneHourWindow(reqs[r].ics)
            /\ IsLocalIso(AppointmentString(reqs[r].clean)) =>
                  IcsSeconds(IcsValue(reqs[r].ics, "DTSTART")) =
                      LocalSeconds(reqs[r].clean.preferredDate,
                                   reqs[r].clean.preferredTime, env.tz)
            /\ \A i \in 1..Len(reqs[r].sent) :
                  /\ Len(reqs[r].sent[i].attachments) = 1
                  /\ reqs[r].sent[i].attachments[1].content = reqs[r].ics

\* both mails of a booking sent, with a window that starts in 2024 and ends in 2025
C8_Witness ==
    \E r \in Requests :
        /\ SentKinds(r) = <<"owner", "customer">>
        /\ SubSeq(IcsValue(reqs[r].ics, "DTSTART"), 1, 8)
              = <<"2", "0", "2", "4", "1", "2", "3", "1">>
        /\ SubSeq(IcsValue(reqs[r].ics, "DTEND"), 1, 8)
              = <<"2", "0", "2", "5", "0", "1", "0", "1">>

(***************************************************************************)
(* C9                                                                      *)
(***************************************************************************)
\* C9: no mail send is attempted before the store append has completed with
\* success; if the append fails, the request ends with a server error and no mail
\* is sent.
C9_PersistBeforeNotify ==
    \A r \in Requests :
        /\ reqs[r].sent # <<>> => Cardinality(RowsOf(r)) = 1
        /\ reqs[r].pc \in {"idle", "received", "inserting"} => reqs[r].sent = <<>>
        /\ reqs[r].failure = "db" =>
              /\ Done(r)
              /\ reqs[r].resp = ServerError
              /\ reqs[r].sent = <<>>
              /\ reqs[r].rows = {}

\* one request answered after its append failed, another one sending its mail
C9_Witness ==
    \E r, p \in Requests :
        /\ Done(r) /\ reqs[r].failure = "db"
        /\ reqs[p].pc = "sendingCustomer" /\ RowsOf(p) # {}

(***************************************************************************)
(* C10                                                                     *)
(***************************************************************************)
\* C10 as claimed: once a valid submission's record is persisted and the request
\* is answered, the owner notification was attempted exactly when TO_EMAIL is
\* configured and the customer confirmation exactly when the sanitized email is
\* valid, each at most once and neither depending on the other.
C10_Claim ==
    \A r \in Requests :
        (Done(r) /\ reqs[r].rows # {}) =>
            /\ Cardinality({i \in 1..Len(reqs[r].sent) : reqs[r].sent[i].kind = "owner"})
                  = (IF Present(env.TO_EMAIL) THEN 1 ELSE 0)
            /\ Cardinality({i \in 1..Len(reqs[r].sent) : reqs[r].sent[i].kind = "customer"})
                  = (IF isEmail(reqs[r].clean.email) THEN 1 ELSE 0)

=============================================================================
